---- MODULE Spec2Model ----
(***************************************************************************)
(* Model of buildaway.py, the Away3D.js build tool: the dependency graph   *)
(* builder (DepGraph.build), the chain evaluator (DepGraph.evaluate_chain),*)
(* the three output commands and the command line driver.                  *)
(*                                                                         *)
(* Strings are modelled as sequences of one-character strings, so that     *)
(* str.split, os.path.basename and os.path.splitext are computed and not   *)
(* assumed.  Python objects (DepNode) live in a heap, `nodes`, and are     *)
(* referred to by their index in it (their identity).                      *)
(***************************************************************************)
EXTENDS Integers, Sequences, FiniteSets, TLC

(***************************************************************************)
(* Bounds of the model.                                                    *)
(***************************************************************************)
MaxInputs == 2      \* longest list of input files given with -i
MaxDeps == 3        \* most dependency names in the files of one build, together
MaxEvals == 2       \* evaluate_chain() calls made on one graph by a library caller
MaxDepth == 8       \* visit calls the interpreter lets be on the stack at once

(***************************************************************************)
(* The strings of the model.                                               *)
(***************************************************************************)
None == <<"None">>                        \* Python's None (no character is "None")
NoArg == "-"                              \* sys.argv has no element 1
NoError == "none"                         \* no exception was raised

nA == <<"A">>                             \* module name A
nPA == <<"p", ".", "A">>                  \* module name p.A

fA == <<"A", ".", "j", "s">>              \* A.js
fDA == <<"d", "/", "A", ".", "j", "s">>   \* d/A.js
fRaw == <<"A">>                           \* a file called A, without a suffix

ModNames == {nA, nPA}                     \* names a module declaration may carry
DepNames == {nA, nPA}                     \* names a dependency list may carry
Paths == {fA, fRaw}                       \* paths the -i options may expand to
SourceLists == {<<fRaw>>, <<fA, fDA>>, <<fRaw, fDA, fA>>}  \* what -s may expand to
oDir == <<"o">>                           \* a path given with -o
Commands == {"list", "concat", "gather"}  \* the keys of the commands table
AnyCommand == "in commands"               \* sys.argv[1] is one of them

SeqsUpTo(S, n) == UNION {[1..k -> S] : k \in 0..n}

Max(S) == CHOOSE x \in S : \A y \in S : y <= x

\* str.rfind(c) + 1: the position of the last c in s, 0 when there is none
RFind(s, c) == Max({0} \cup {i \in 1..Len(s) : s[i] = c})

\* mod_name = node.module.split('.')[-1]
LastField(s) == SubSeq(s, RFind(s, ".") + 1, Len(s))

\* os.path.basename
Basename(p) == SubSeq(p, RFind(p, "/") + 1, Len(p))

\* os.path.splitext(p)[1]: from the last dot of the base name on, unless that
\* dot is preceded in the base name by dots only
SplitExt(p) ==
    LET sep == RFind(p, "/")
        dot == RFind(p, ".")
    IN  IF dot > sep /\ \E i \in (sep + 1)..(dot - 1) : p[i] # "."
        THEN SubSeq(p, dot, Len(p))
        ELSE << >>

JsExt == <<".", "j", "s">>

(***************************************************************************)
(* What a file is on disk: whether os.path.isfile holds of it, and what    *)
(* the regular expressions of build() find in its text.                    *)
(*   kind "module":  mod_re matches; name = group 1, deps = the names      *)
(*                   dep_re finds in group 2, the body is group 3          *)
(*   kind "include": mod_re fails and inc_re matches; deps as above        *)
(*   kind "inert":   neither matches                                       *)
(***************************************************************************)
NoFile == [isfile |-> FALSE, kind |-> "inert", name |-> None, deps |-> << >>]

FileStates ==
    {NoFile}
    \cup {[isfile |-> TRUE, kind |-> "inert", name |-> None, deps |-> << >>]}
    \cup {[isfile |-> TRUE, kind |-> "module", name |-> n, deps |-> d] :
             n \in ModNames, d \in SeqsUpTo(DepNames, MaxDeps)}
    \cup {[isfile |-> TRUE, kind |-> "include", name |-> None, deps |-> d] :
             d \in SeqsUpTo(DepNames, MaxDeps)}

\* The body of the module declared in the file at path p: the file's own text.
Body(p) == <<"{">> \o p \o <<"}">>

VARIABLES
    pc,         \* where the program is: "start", "build", "built", "exit"
    caller,     \* "main" (the command line driver) or "lib" (a caller of DepGraph)
    cmd,        \* sys.argv[1], or NoArg
    inputs,     \* the list built from the -i options
    sources,    \* the list built from the -s options
    disk,       \* the files looked at so far: path -> its FileStates record
    nodes,      \* the heap of DepNode objects
    cache,      \* build()'s cache: module name -> node identity
    all_nodes,  \* DepGraph.all_nodes
    leaves,     \* DepGraph.leaves
    queue,      \* build()'s worklist
    qi,         \* how many worklist items the for loop has taken
    raised,     \* the exception that ended the program's work, or NoError
    chains,     \* the lists evaluate_chain() has returned, in call order
    output,     \* the -o option, or None
    out,        \* what the program wrote
    exit_code,  \* the process' exit status, -1 while it runs
    eval        \* the evaluate_chain() call in progress: its chain, its place
                \* in the loop over the leaves, and the visit calls on the stack

vars == <<pc, caller, cmd, inputs, sources, disk, nodes, cache, all_nodes,
          leaves, queue, qi, raised, chains, output, out, exit_code, eval>>


(***************************************************************************)
(* DepNode                                                                 *)
(***************************************************************************)
\* DepNode.__init__
DepNode(module, file_name, is_module) ==
    [module |-> module, file_name |-> file_name, is_module |-> is_module,
     loaded |-> FALSE, content |-> << >>,
     dependencies |-> << >>, dependents |-> << >>, visited |-> FALSE]

\* push_dependency that forgets the inverse relation
push_dependency_oneway(ns, a, dep) ==
    [ns EXCEPT ![a].dependencies = Append(@, dep)]

\* DepNode.push_dependency, on the heap ns: node a gains the dependency dep
push_dependency(ns, a, dep) ==
    LET ns1 == [ns EXCEPT ![a].dependencies = Append(@, dep)]
    IN  [ns1 EXCEPT ![dep].dependents = Append(@, a)]

(***************************************************************************)
(* The helpers closed over by DepGraph.build.  The part of the program     *)
(* state they touch is passed as a record g with the fields nodes, cache,  *)
(* all_nodes and queue.                                                    *)
(***************************************************************************)
\* has_node(mod_name, only_if_loaded)
has_node(g, mod_name, only_if_loaded) ==
    IF mod_name \in DOMAIN g.cache
    THEN IF only_if_loaded /\ ~g.nodes[g.cache[mod_name]].loaded
         THEN FALSE
         ELSE TRUE
    ELSE FALSE

\* get_node that does not consult the cache
get_node_always_new(g, mod_name) ==
    LET id == Len(g.nodes) + 1
    IN  [g EXCEPT !.nodes = Append(@, DepNode(mod_name, None, TRUE)),
                  !.all_nodes = Append(@, id),
                  !.cache = (mod_name :> id) @@ @]

\* get_node(mod_name): the state after the call; the node returned is
\* get_node(g, mod_name).cache[mod_name]
get_node(g, mod_name) ==
    IF ~has_node(g, mod_name, FALSE)
    THEN LET id == Len(g.nodes) + 1
         IN  [g EXCEPT !.nodes = Append(@, DepNode(mod_name, None, TRUE)),
                       !.all_nodes = Append(@, id),
                       !.cache = (mod_name :> id) @@ @]
    ELSE g

\* guess_file that keeps looking after a match and returns the last one
guess_file_last(node, srcs) ==
    LET file_name == LastField(node.module) \o JsExt
        hits == {i \in 1..Len(srcs) : Basename(srcs[i]) = file_name}
    IN  IF hits = {} THEN None
        ELSE srcs[CHOOSE i \in hits : \A j \in hits : i >= j]

\* guess_file(node): the first source whose base name is <last field>.js
guess_file(node, srcs) ==
    LET file_name == LastField(node.module) \o JsExt
        hits == {i \in 1..Len(srcs) : Basename(srcs[i]) = file_name}
    IN  IF hits = {} THEN None
        ELSE srcs[CHOOSE i \in hits : \A j \in hits : i <= j]

\* add_node_dep that puts a new node at the head of the worklist
add_node_dep_front(g, node, dep_name) ==
    LET existed == has_node(g, dep_name, FALSE)
        g1 == get_node(g, dep_name)
        dep == g1.cache[dep_name]
        g2 == [g1 EXCEPT !.nodes = push_dependency(@, node, dep)]
    IN  IF ~existed
        THEN [g2 EXCEPT !.queue = <<dep>> \o @]
        ELSE g2

\* add_node_dep that queues the node whether or not it existed
add_node_dep_always(g, node, dep_name) ==
    LET g1 == get_node(g, dep_name)
        dep == g1.cache[dep_name]
        g2 == [g1 EXCEPT !.nodes = push_dependency(@, node, dep)]
    IN  [g2 EXCEPT !.queue = Append(@, dep)]

\* add_node_dep(node, dep_name)
add_node_dep(g, node, dep_name) ==
    LET existed == has_node(g, dep_name, FALSE)
        g1 == get_node(g, dep_name)
        dep == g1.cache[dep_name]
        g2 == [g1 EXCEPT !.nodes = push_dependency(@, node, dep)]
    IN  IF ~existed
        THEN [g2 EXCEPT !.queue = Append(@, dep)]
        ELSE g2

\* for dep_name in dep_names: add_node_dep(node, dep_name)
RECURSIVE add_node_deps(_, _, _)
add_node_deps(g, node, dep_names) ==
    IF dep_names = << >> THEN g
    ELSE add_node_deps(add_node_dep(g, node, Head(dep_names)), node, Tail(dep_names))

\* The module branch of the worklist body: mod_re matched the text of fname.
parse_module(g, fname, st) ==
    LET g1 == get_node(g, st.name)
        node == g1.cache[st.name]
        g2 == [g1 EXCEPT !.nodes[node].file_name = fname,
                         !.nodes[node].content = Body(fname),
                         !.nodes[node].loaded = TRUE]
    IN  add_node_deps(g2, node, st.deps)

\* The include branch: inc_re matched the text of fname, read for worklist node.
parse_include(g, node, fname, st) ==
    IF Len(st.deps) > 0
    THEN LET g1 == get_node(g, fname)
             file_node == g1.cache[fname]
             g2 == [g1 EXCEPT !.nodes[file_node].file_name = fname,
                              !.nodes[file_node].is_module = FALSE]
         IN  add_node_deps(g2, node, st.deps)
    ELSE g

\* a leaf pass that keeps the nodes nothing depends on
RECURSIVE collect_leaves_roots(_, _)
collect_leaves_roots(ns, ids) ==
    IF ids = << >> THEN << >>
    ELSE IF Len(ns[Head(ids)].dependents) = 0
         THEN <<Head(ids)>> \o collect_leaves_roots(ns, Tail(ids))
         ELSE collect_leaves_roots(ns, Tail(ids))

\* The leaf pass that ends build()
RECURSIVE collect_leaves(_, _)
collect_leaves(ns, ids) ==
    IF ids = << >> THEN << >>
    ELSE IF Len(ns[Head(ids)].dependencies) = 0
         THEN <<Head(ids)>> \o collect_leaves(ns, Tail(ids))
         ELSE collect_leaves(ns, Tail(ids))

(***************************************************************************)
(* DepGraph.evaluate_chain.  r is a record with the heap (for the visited  *)
(* flags) and the chain built so far.                                      *)
(***************************************************************************)
RECURSIVE visit(_, _)
RECURSIVE visit_each(_, _)

\* chain.append(node) in the place of chain.insert(0, node)
insert_last(chain, node) == chain \o <<node>>

\* chain.insert(0, node)
insert0(chain, node) == <<node>> \o chain

\* visit that uses the dependents list up as it walks it
visit_consuming(r, node) ==
    IF ~r.nodes[node].visited
    THEN LET r1 == [r EXCEPT !.nodes[node].visited = TRUE]
             r2 == visit_each(r1, r1.nodes[node].dependents)
         IN  [r2 EXCEPT !.chain = insert0(@, node),
                        !.nodes[node].dependents = << >>]
    ELSE r

\* visit with chain.insert(0, node) outside the if
visit_insert_always(r, node) ==
    IF ~r.nodes[node].visited
    THEN LET r1 == [r EXCEPT !.nodes[node].visited = TRUE]
             r2 == visit_each(r1, r1.nodes[node].dependents)
         IN  [r2 EXCEPT !.chain = insert0(@, node)]
    ELSE [r EXCEPT !.chain = insert0(@, node)]

\* visit that walks the dependencies instead of the dependents
visit_dependencies(r, node) ==
    IF ~r.nodes[node].visited
    THEN LET r1 == [r EXCEPT !.nodes[node].visited = TRUE]
             r2 == visit_each(r1, r1.nodes[node].dependencies)
         IN  [r2 EXCEPT !.chain = insert0(@, node)]
    ELSE r

\* visit(node)
visit(r, node) ==
    IF ~r.nodes[node].visited
    THEN LET r1 == [r EXCEPT !.nodes[node].visited = TRUE]
             r2 == visit_each(r1, r1.nodes[node].dependents)
         IN  [r2 EXCEPT !.chain = insert0(@, node)]
    ELSE r

\* for dep in ...: visit(dep)
visit_each(r, ids) ==
    IF ids = << >> THEN r
    ELSE visit_each(visit(r, Head(ids)), Tail(ids))

\* evaluate_chain that clears the visited flags before it starts
evaluate_chain_resetting(ns, lvs) ==
    visit_each([nodes |-> [i \in 1..Len(ns) |-> [ns[i] EXCEPT !.visited = FALSE]],
                chain |-> << >>], lvs)

\* evaluate_chain(): the heap after the call and the chain returned
evaluate_chain(ns, lvs) == visit_each([nodes |-> ns, chain |-> << >>], lvs)


(***************************************************************************)
(* The output commands, as functions of the graph.                         *)
(***************************************************************************)
\* listdep: one line '%s (%s)' per node of the chain
RECURSIVE listdep_lines(_, _)
listdep_lines(ns, chain) ==
    IF chain = << >> THEN << >>
    ELSE <<[line |-> "node", module |-> ns[Head(chain)].module,
            file |-> ns[Head(chain)].file_name]>>
         \o listdep_lines(ns, Tail(chain))

\* the suffix compared without its dot
is_js_nodot(file_name) == SplitExt(file_name) = <<"j", "s">>

\* name, ext = os.path.splitext(node.file_name); ext == '.js'
is_js(file_name) == SplitExt(file_name) = JsExt

\* concat: one wrapper block per node of the chain whose file ends in .js.
\* os.path.splitext(None) raises; what was written before it stays written.
RECURSIVE concat_blocks(_, _)
concat_blocks(ns, chain) ==
    IF chain = << >> THEN [written |-> << >>, error |-> NoError]
    ELSE LET node == ns[Head(chain)]
         IN  IF node.file_name = None
             THEN [written |-> << >>, error |-> "AttributeError"]
             ELSE LET rest == concat_blocks(ns, Tail(chain))
                      block == [line |-> "block", file |-> node.file_name,
                                module |-> node.module, content |-> node.content]
                  IN  IF is_js(node.file_name)
                      THEN [rest EXCEPT !.written = <<block>> \o @]
                      ELSE rest

\* gather: one copy per node of all_nodes; os.path.basename(None) raises.
RECURSIVE gather_copies(_, _, _)
gather_copies(ns, ids, dir) ==
    IF ids = << >> THEN [written |-> << >>, error |-> NoError]
    ELSE LET node == ns[Head(ids)]
         IN  IF node.file_name = None
             THEN [written |-> << >>, error |-> "AttributeError"]
             ELSE LET rest == gather_copies(ns, Tail(ids), dir)
                      copy == [line |-> "copy", file |-> node.file_name,
                               dst |-> dir \o <<"/">> \o Basename(node.file_name)]
                  IN  [rest EXCEPT !.written = <<copy>> \o @]

(***************************************************************************)
(* The state machine.                                                      *)
(***************************************************************************)
\* no evaluate_chain() call is in progress
NoCall == [li |-> 0, stack |-> << >>, chain |-> << >>, fresh |-> TRUE]

Init ==
    /\ pc = "start"
    /\ caller = "main"
    /\ cmd = NoArg
    /\ inputs = << >>
    /\ sources = << >>
    /\ output = None
    /\ disk = << >>
    /\ nodes = << >>
    /\ cache = << >>
    /\ all_nodes = << >>
    /\ leaves = << >>
    /\ queue = << >>
    /\ qi = 0
    /\ raised = NoError
    /\ chains = << >>
    /\ out = << >>
    /\ exit_code = -1
    /\ eval = NoCall

\* The build state the helpers work on, and its write-back.
G == [nodes |-> nodes, cache |-> cache, all_nodes |-> all_nodes, queue |-> queue]

SetG(g) ==
    /\ nodes' = g.nodes
    /\ cache' = g.cache
    /\ all_nodes' = g.all_nodes
    /\ queue' = g.queue

\* graph = DepGraph(); the head of graph.build(inputs, sources):
\* queue = [DepNode(file_name=f) for f in inputs]
StartBuild(ins, srcs) ==
    /\ inputs' = ins
    /\ sources' = srcs
    /\ nodes' = [i \in 1..Len(ins) |-> DepNode(None, ins[i], TRUE)]
    /\ queue' = [i \in 1..Len(ins) |-> i]
    /\ qi' = 0
    /\ cache' = << >>
    /\ all_nodes' = << >>
    /\ leaves' = << >>
    /\ pc' = "build"

\* An exception leaves the code that raised it.  Under the command line driver a
\* BuildException is caught and printed and the script runs off its end; any
\* other exception ends the interpreter with a traceback and status 1.
\* `written` is what the raising code wrote before.
Raise(exc, msg, written) ==
    /\ raised' = exc
    /\ pc' = "exit"
    /\ IF caller = "main"
       THEN IF exc = "BuildException"
            THEN /\ out' = out \o written \o <<[line |-> "Error", msg |-> msg]>>
                 /\ exit_code' = 0
            ELSE /\ out' = out \o written
                 /\ exit_code' = 1
       ELSE /\ out' = out \o written
            /\ exit_code' = exit_code

\* __main__ without arguments, or with the help command: printhelp()
MainHelp ==
    /\ pc = "start"
    /\ \E c \in {NoArg, "help"} : cmd' = c
    /\ caller' = "main"
    /\ out' = Append(out, [line |-> "help"])
    /\ exit_code' = 0
    /\ pc' = "exit"
    /\ UNCHANGED <<eval, inputs, sources, output, disk, nodes, cache, all_nodes, leaves,
                   queue, qi, raised, chains>>

\* __main__ with a command that is not in the commands table: sys.exit(-1)
MainUnknown ==
    /\ pc = "start"
    /\ cmd' = "bogus"
    /\ caller' = "main"
    /\ out' = Append(out, [line |-> "Unknown command"])
    /\ exit_code' = 255
    /\ pc' = "exit"
    /\ UNCHANGED <<eval, inputs, sources, output, disk, nodes, cache, all_nodes, leaves,
                   queue, qi, raised, chains>>

\* __main__ with a known command: the options are read and build() starts.
\* build() reads neither the command nor the -o option: which key of the
\* commands table sys.argv[1] is, and what -o says, is drawn where the driver
\* first uses it, in the dispatch commands[cmd](graph, output).
MainCommand ==
    /\ pc = "start"
    /\ cmd' = AnyCommand
    /\ caller' = "main"
    /\ \E ins \in SeqsUpTo(Paths, MaxInputs), srcs \in SourceLists : StartBuild(ins, srcs)
    /\ UNCHANGED <<eval, output, disk, raised, chains, out, exit_code>>

\* A program that uses DepGraph itself: DepGraph().build(inputs, sources)
LibBuild ==
    /\ pc = "start"
    /\ caller' = "lib"
    /\ \E ins \in SeqsUpTo(Paths, MaxInputs), srcs \in SourceLists : StartBuild(ins, srcs)
    /\ UNCHANGED <<eval, cmd, output, disk, raised, chains, out, exit_code>>

(***************************************************************************)
(* One pass of build()'s worklist loop, `for node in queue`, by the way    *)
(* it takes through the loop body.                                         *)
(***************************************************************************)
InLoop == pc = "build" /\ qi < Len(queue)

\* the worklist node of this pass
Cur == queue[qi + 1]

Skipped == has_node(G, nodes[Cur].module, TRUE)

\* fname = node.file_name or guess_file(node)
FName ==
    IF nodes[Cur].file_name \notin {None, << >>}
    THEN nodes[Cur].file_name
    ELSE guess_file(nodes[Cur], sources)

\* os.path.isfile never consulted
not_isfile_unchecked(st) == FALSE

\* not os.path.isfile(fname), for a file in state st
not_isfile(st) == ~st.isfile

\* the dependency names in the files looked at so far
RECURSIVE NamesIn(_)
NamesIn(ps) ==
    IF ps = {} THEN 0
    ELSE LET p == CHOOSE q \in ps : TRUE
         IN  Len(disk[p].deps) + NamesIn(ps \ {p})

\* What the file system answers for path p: as before for a file looked at
\* before, anything within the bound on the dependency names for a new one.
Lookup(p) ==
    IF p \in DOMAIN disk THEN {disk[p]}
    ELSE {st \in FileStates : NamesIn(DOMAIN disk) + Len(st.deps) <= MaxDeps}

\* if has_node(node.module, only_if_loaded=True): continue
BuildSkip ==
    /\ InLoop
    /\ Skipped
    /\ qi' = qi + 1
    /\ UNCHANGED <<eval, pc, caller, cmd, inputs, sources, output, disk, nodes, cache,
                   all_nodes, leaves, queue, raised, chains, out, exit_code>>

\* raise BuildException('Could not find file for module ...')
BuildFail ==
    /\ InLoop
    /\ ~Skipped
    /\ \/ FName = None /\ disk' = disk
       \/ /\ FName # None
          /\ \E st \in Lookup(FName) :
                /\ not_isfile(st)
                /\ disk' = (FName :> st) @@ disk
    /\ Raise("BuildException", "Could not find file", << >>)
    /\ UNCHANGED <<eval, caller, cmd, inputs, sources, output, nodes, cache, all_nodes,
                   leaves, queue, qi, chains>>

\* the file is read and parsed by the branch its text selects
BuildParse(kind) ==
    /\ InLoop
    /\ ~Skipped
    /\ FName # None
    /\ \E st \in Lookup(FName) :
          /\ ~not_isfile(st)
          /\ st.kind = kind
          /\ disk' = (FName :> st) @@ disk
          /\ SetG(CASE kind = "module" -> parse_module(G, FName, st)
                    [] kind = "include" -> parse_include(G, Cur, FName, st)
                    [] OTHER -> G)
    /\ qi' = qi + 1
    /\ UNCHANGED <<eval, pc, caller, cmd, inputs, sources, output, leaves, raised,
                   chains, out, exit_code>>

BuildModule == BuildParse("module")
BuildInclude == BuildParse("include")
BuildInert == BuildParse("inert")

\* the loop is over: the leaf pass, and build() returns
BuildLeaves ==
    /\ pc = "build"
    /\ qi = Len(queue)
    /\ leaves' = leaves \o collect_leaves(nodes, all_nodes)
    /\ pc' = "built"
    /\ UNCHANGED <<eval, caller, cmd, inputs, sources, output, disk, nodes, cache,
                   all_nodes, queue, qi, raised, chains, out, exit_code>>


(***************************************************************************)
(* After build(): the output command, or a library caller's own calls.     *)
(***************************************************************************)
\* The record kept of one evaluate_chain() call: the list it returned, and
\* whether no visited flag was set when it was called.
ChainRecord(r) ==
    [chain |-> r.chain, fresh |-> \A i \in 1..Len(nodes) : ~nodes[i].visited]

\* the script has nothing left to run
Finish ==
    /\ pc' = "exit"
    /\ exit_code' = 0
    /\ raised' = raised

\* commands['list'](graph, output)
RunList ==
    /\ pc = "built" /\ caller = "main" /\ cmd = AnyCommand
    /\ cmd' = "list"
    /\ LET r == evaluate_chain(nodes, leaves)
       IN  /\ nodes' = r.nodes
           /\ chains' = Append(chains, ChainRecord(r))
           /\ out' = out \o listdep_lines(r.nodes, r.chain)
    /\ Finish
    /\ UNCHANGED <<eval, caller, inputs, sources, output, disk, cache, all_nodes,
                   leaves, queue, qi>>

\* commands['concat'](graph, output)
RunConcat ==
    /\ pc = "built" /\ caller = "main" /\ cmd = AnyCommand
    /\ cmd' = "concat"
    /\ LET r == evaluate_chain(nodes, leaves)
           c == concat_blocks(r.nodes, r.chain)
       IN  /\ nodes' = r.nodes
           /\ chains' = Append(chains, ChainRecord(r))
           /\ IF c.error = NoError
              THEN out' = out \o c.written /\ Finish
              ELSE Raise(c.error, "splitext", c.written)
    /\ UNCHANGED <<eval, caller, inputs, sources, output, disk, cache, all_nodes,
                   leaves, queue, qi>>

\* commands['gather'](graph, output)
RunGather ==
    /\ pc = "built" /\ caller = "main" /\ cmd = AnyCommand
    /\ cmd' = "gather"
    /\ \E o \in {None, oDir}, isdir \in BOOLEAN :
          /\ output' = o
          /\ IF o # None /\ isdir
             THEN LET c == gather_copies(nodes, all_nodes, o)
                  IN  IF c.error = NoError
                      THEN out' = out \o c.written /\ Finish
                      ELSE Raise(c.error, "basename", c.written)
             ELSE Raise("BuildException", "Output must be directory", << >>)
    /\ UNCHANGED <<eval, caller, inputs, sources, disk, nodes, cache,
                   all_nodes, leaves, queue, qi, chains>>

\* a library caller calls graph.evaluate_chain()
EvaluateChain ==
    /\ pc = "built" /\ caller = "lib"
    /\ Len(chains) < MaxEvals
    /\ LET r == evaluate_chain(nodes, leaves)
       IN  /\ nodes' = r.nodes
           /\ chains' = Append(chains, ChainRecord(r))
    /\ UNCHANGED <<eval, pc, caller, cmd, inputs, sources, output, disk, cache, all_nodes,
                   leaves, queue, qi, raised, out, exit_code>>

\* a library caller sets visited back to False on every node
ResetVisited ==
    /\ pc = "built" /\ caller = "lib"
    /\ Len(chains) < MaxEvals
    /\ \E i \in 1..Len(nodes) : nodes[i].visited
    /\ nodes' = [i \in 1..Len(nodes) |-> [nodes[i] EXCEPT !.visited = FALSE]]
    /\ UNCHANGED <<eval, pc, caller, cmd, inputs, sources, output, disk, cache, all_nodes,
                   leaves, queue, qi, raised, chains, out, exit_code>>

(***************************************************************************)
(* evaluate_chain() one step at a time: a call of visit, the end of a      *)
(* visit call, the return of the chain.                                    *)
(***************************************************************************)
\* visit that leaves node.visited as it is
mark_visited_never(ns, node) == ns

\* node.visited = True
mark_visited(ns, node) == [ns EXCEPT ![node].visited = TRUE]

\* chain = [] and the for loop over self.leaves is entered
EvalBegin ==
    /\ pc = "built" /\ caller = "lib"
    /\ Len(chains) < MaxEvals
    /\ pc' = "eval"
    /\ eval' = [NoCall EXCEPT !.fresh = \A i \in 1..Len(nodes) : ~nodes[i].visited]
    /\ UNCHANGED <<caller, cmd, inputs, sources, output, disk, nodes, cache, all_nodes,
                   leaves, queue, qi, raised, chains, out, exit_code>>

\* the node the next visit call is made on, or 0 when a loop is exhausted:
\* the next leaf when no visit call is running, the next dependent of the
\* node of the innermost call otherwise
Callee ==
    IF eval.stack = << >>
    THEN IF eval.li < Len(leaves) THEN leaves[eval.li + 1] ELSE 0
    ELSE LET top == eval.stack[Len(eval.stack)]
         IN  IF top.k < Len(nodes[top.node].dependents)
             THEN nodes[top.node].dependents[top.k + 1]
             ELSE 0

\* the loop in hand moves on to its next item
Advanced ==
    IF eval.stack = << >>
    THEN [eval EXCEPT !.li = @ + 1]
    ELSE [eval EXCEPT !.stack[Len(eval.stack)].k = @ + 1]

\* visit(node): nothing for a visited node; otherwise the node is marked and
\* its loop over the dependents begins, unless the stack is full
EvalVisit ==
    /\ pc = "eval"
    /\ Callee # 0
    /\ IF nodes[Callee].visited
       THEN /\ eval' = Advanced
            /\ UNCHANGED <<pc, nodes, raised, out, exit_code>>
       ELSE IF Len(eval.stack) >= MaxDepth
            THEN /\ Raise("RuntimeError", "maximum recursion depth exceeded", << >>)
                 /\ UNCHANGED <<nodes, eval>>
            ELSE /\ nodes' = mark_visited(nodes, Callee)
                 /\ eval' = [Advanced EXCEPT
                                !.stack = Append(@, [node |-> Callee, k |-> 0])]
                 /\ UNCHANGED <<pc, raised, out, exit_code>>
    /\ UNCHANGED <<caller, cmd, inputs, sources, output, disk, cache, all_nodes,
                   leaves, queue, qi, chains>>

\* the loop over the dependents is over: chain.insert(0, node), and the visit
\* call returns
EvalInsert ==
    /\ pc = "eval"
    /\ eval.stack # << >>
    /\ Callee = 0
    /\ eval' = [eval EXCEPT
                  !.chain = insert0(@, eval.stack[Len(eval.stack)].node),
                  !.stack = SubSeq(@, 1, Len(@) - 1)]
    /\ UNCHANGED <<pc, caller, cmd, inputs, sources, output, disk, nodes, cache,
                   all_nodes, leaves, queue, qi, raised, chains, out, exit_code>>

\* the loop over the leaves is over: return chain
EvalReturn ==
    /\ pc = "eval"
    /\ eval.stack = << >>
    /\ Callee = 0
    /\ chains' = Append(chains, [chain |-> eval.chain, fresh |-> eval.fresh])
    /\ pc' = "built"
    /\ eval' = NoCall
    /\ UNCHANGED <<caller, cmd, inputs, sources, output, disk, nodes, cache,
                   all_nodes, leaves, queue, qi, raised, out, exit_code>>

Next ==
    \/ MainHelp
    \/ MainUnknown
    \/ MainCommand
    \/ LibBuild
    \/ BuildSkip
    \/ BuildFail
    \/ BuildModule
    \/ BuildInclude
    \/ BuildInert
    \/ BuildLeaves
    \/ RunList
    \/ RunConcat
    \/ RunGather
    \/ EvaluateChain
    \/ ResetVisited

Spec == Init /\ [][Next]_vars

\* A library caller's run with evaluate_chain() taken step by step.
NextLive ==
    \/ LibBuild
    \/ BuildSkip
    \/ BuildFail
    \/ BuildModule
    \/ BuildInclude
    \/ BuildInert
    \/ BuildLeaves
    \/ EvalBegin
    \/ EvalVisit
    \/ EvalInsert
    \/ EvalReturn

\* build()'s loop and a started evaluate_chain() call run on: the interpreter
\* executes the next statement of a call in progress.  What the caller does
\* between calls is left to the caller.
BuildStep ==
    BuildSkip \/ BuildFail \/ BuildModule \/ BuildInclude \/ BuildInert \/ BuildLeaves

EvalStep == EvalVisit \/ EvalInsert \/ EvalReturn

SpecLive ==
    /\ Init
    /\ [][NextLive]_vars
    /\ WF_vars(BuildStep)
    /\ WF_vars(EvalStep)

\* The same run with no more assumed than that a started evaluate_chain()
\* call runs on.
SpecEval ==
    /\ Init
    /\ [][NextLive]_vars
    /\ WF_vars(EvalStep)


(***************************************************************************)
(* Vocabulary of the properties.                                           *)
(***************************************************************************)
Range(s) == {s[i] : i \in 1..Len(s)}
Count(s, x) == Cardinality({i \in 1..Len(s) : s[i] = x})
Pos(s, x) == CHOOSE i \in 1..Len(s) : s[i] = x /\ \A j \in 1..(i - 1) : s[j] # x
Ids == 1..Len(nodes)

\* a depends on b
Edge(a, b) == b \in Range(nodes[a].dependencies)

\* the nodes reached from the set `frontier` along one or more dependency edges
RECURSIVE Reached(_, _)
Reached(frontier, acc) ==
    LET new == UNION {Range(nodes[a].dependencies) : a \in frontier} \ acc
    IN  IF new = {} THEN acc ELSE Reached(new, acc \cup new)

Acyclic == \A a \in Ids : a \notin Reached({a}, {})

\* build() has returned (and has not raised)
BuildSucceeded == pc = "built" \/ (pc = "exit" /\ cmd \in Commands)

\* build() has raised from its worklist loop
BuildFailed == pc = "exit" /\ raised = "BuildException" /\ qi < Len(queue)

\* the worklist node of this pass cannot be given an existing file; disk' is
\* the file system as the pass found it
NoFileForCur ==
    /\ InLoop
    /\ ~Skipped
    /\ \/ FName = None
       \/ FName \in DOMAIN disk' /\ ~disk'[FName].isfile

(***************************************************************************)
(* C1: on a graph without a dependency cycle, the chain evaluate_chain()   *)
(* returns for a built graph holds both ends of every edge "a depends on   *)
(* b", and b comes strictly before a.                                      *)
(***************************************************************************)
C1_TopologicalOrder ==
    \A k \in 1..Len(chains) :
        (chains[k].fresh /\ Acyclic) =>
            \A a, b \in Ids :
                Edge(a, b) =>
                    /\ a \in Range(chains[k].chain)
                    /\ b \in Range(chains[k].chain)
                    /\ Pos(chains[k].chain, b) < Pos(chains[k].chain, a)

\* a chain was evaluated on an acyclic graph in which a depends on b and c,
\* and b depends on c
C1_Witness ==
    /\ Len(chains) > 0
    /\ chains[1].fresh
    /\ Acyclic
    /\ \E a, b, c \in Ids :
          /\ a # b /\ b # c /\ a # c
          /\ Edge(a, b) /\ Edge(b, c) /\ Edge(a, c)

(***************************************************************************)
(* C2: after a build in which an input file matched the include marker     *)
(* only and named modules, the node registered under the file's path is    *)
(* not a module, every module named is among its dependencies, and it is   *)
(* among the dependents of each of them.  Stated for the input files whose *)
(* path is not itself a module name of the model.                          *)
(***************************************************************************)
IncludeInputs ==
    {f \in Range(inputs) \cap DOMAIN disk :
        disk[f].isfile /\ disk[f].kind = "include" /\ Len(disk[f].deps) > 0}

C2_IncludeEdgesOnFileNode ==
    BuildSucceeded =>
        \A f \in IncludeInputs \ DepNames :
            /\ f \in DOMAIN cache
            /\ ~nodes[cache[f]].is_module
            /\ \A d \in Range(disk[f].deps) :
                  /\ d \in DOMAIN cache
                  /\ cache[d] \in Range(nodes[cache[f]].dependencies)
                  /\ cache[f] \in Range(nodes[cache[d]].dependents)

(***************************************************************************)
(* C3: a worklist node for which no existing file can be found makes       *)
(* build() raise BuildException in that pass; after it no worklist node is *)
(* processed, leaves stays empty, no command runs and no chain is          *)
(* evaluated or written.                                                   *)
(***************************************************************************)
C3_FailureAborts ==
    /\ [](BuildFailed =>
            /\ leaves = << >>
            /\ chains = << >>
            /\ cmd \notin Commands
            /\ \A i \in 1..Len(out) : out[i].line = "Error")
    /\ [][/\ NoFileForCur =>
                /\ raised' = "BuildException"
                /\ pc' = "exit"
                /\ qi' = qi
          /\ BuildFailed => FALSE]_vars

\* build() failed at a dependency found while parsing an earlier file, under
\* the command line driver
C3_Witness ==
    /\ BuildFailed
    /\ caller = "main"
    /\ qi >= Len(inputs)
    /\ Len(all_nodes) > 1

(***************************************************************************)
(* C4: the registry holds one node per name: all_nodes has no node twice   *)
(* and no two nodes of one name, the cache maps each name to the node of   *)
(* all_nodes that carries it, get_node of a registered name creates        *)
(* nothing, and no step rebinds a name.                                    *)
(***************************************************************************)
C4_RegistryUnique ==
    /\ [](/\ \A i, j \in 1..Len(all_nodes) :
                i # j => /\ all_nodes[i] # all_nodes[j]
                         /\ nodes[all_nodes[i]].module # nodes[all_nodes[j]].module
          /\ \A n \in DOMAIN cache :
                /\ nodes[cache[n]].module = n
                /\ cache[n] \in Range(all_nodes)
                /\ get_node(G, n) = G
          /\ \A i \in 1..Len(all_nodes) :
                /\ nodes[all_nodes[i]].module \in DOMAIN cache
                /\ cache[nodes[all_nodes[i]].module] = all_nodes[i])
    /\ [][\A n \in DOMAIN cache : n \in DOMAIN cache' /\ cache'[n] = cache[n]]_vars

\* a name was looked up as a dependency name twice and as a declared name
C4_Witness ==
    \E a \in Ids, n \in DOMAIN cache :
        /\ Count(nodes[a].dependencies, cache[n]) >= 2
        /\ nodes[cache[n]].loaded

(***************************************************************************)
(* C5: at every step of build(), for all nodes a and b of the heap, b      *)
(* occurs in a.dependencies as often as a occurs in b.dependents.          *)
(***************************************************************************)
C5_EdgeSymmetry ==
    \A a, b \in Ids :
        Count(nodes[a].dependencies, b) = Count(nodes[b].dependents, a)

\* mid-build, a nameless worklist node and a registered node both have edges,
\* one of them twice
C5_Witness ==
    /\ InLoop
    /\ \E a, b \in Ids : Count(nodes[a].dependencies, b) = 2
    /\ \E a \in Ids : nodes[a].module = None /\ Len(nodes[a].dependencies) > 0
    /\ \E a \in Ids : nodes[a].module # None /\ Len(nodes[a].dependencies) > 0


(***************************************************************************)
(* C6: leaves is empty until the worklist loop is over, and after a        *)
(* successful build() it holds, once each, exactly the nodes of all_nodes  *)
(* whose dependencies list is empty.                                       *)
(***************************************************************************)
C6_LeafCorrectness ==
    /\ pc \in {"start", "build"} => leaves = << >>
    /\ BuildSucceeded =>
          \A i \in Ids :
              Count(leaves, i) =
                  IF i \in Range(all_nodes) /\ Len(nodes[i].dependencies) = 0
                  THEN 1 ELSE 0

\* a built graph with a leaf, a registered node that is no leaf, and a leaf
\* that something depends on
C6_Witness ==
    /\ pc = "built"
    /\ \E i \in Range(all_nodes) : Len(nodes[i].dependencies) > 0
    /\ \E i \in Range(leaves) : Len(nodes[i].dependents) > 0
    /\ \E i \in Range(leaves) : Len(nodes[i].dependents) = 0

(***************************************************************************)
(* C7: when the built graph is acyclic and consists of declared modules    *)
(* only, each loaded from its own .js file, concat evaluates a chain that  *)
(* holds each of the N nodes once, and writes N wrapper blocks, the block  *)
(* of a module after the blocks of the modules it depends on.              *)
(***************************************************************************)
ModulesOnly ==
    /\ \A i \in Ids :
          \/ /\ i \in Range(all_nodes)
             /\ nodes[i].loaded
             /\ nodes[i].is_module
             /\ nodes[i].file_name # None
             /\ SplitExt(nodes[i].file_name) = JsExt
          \/ /\ i \notin Range(all_nodes)
             /\ nodes[i].dependencies = << >>
             /\ nodes[i].dependents = << >>
    /\ \A i, j \in Range(all_nodes) :
          i # j => nodes[i].file_name # nodes[j].file_name

\* the position in `out` of the block written for node i
BlockPos(i) ==
    CHOOSE k \in 1..Len(out) :
        out[k].line = "block" /\ out[k].module = nodes[i].module

C7_ConcatBlocks ==
    (pc = "exit" /\ cmd = "concat" /\ Acyclic /\ ModulesOnly) =>
        /\ raised = NoError
        /\ Len(chains[1].chain) = Len(all_nodes)
        /\ \A i \in Range(all_nodes) : Count(chains[1].chain, i) = 1
        /\ Len(out) = Len(all_nodes)
        /\ \A k \in 1..Len(out) :
              /\ out[k].line = "block"
              /\ out[k].module = nodes[chains[1].chain[k]].module
              /\ out[k].file = nodes[chains[1].chain[k]].file_name
        /\ \A a, b \in Ids : Edge(a, b) => BlockPos(b) < BlockPos(a)

\* concat ran on two declared modules, one depending on the other
C7_Witness ==
    /\ pc = "exit" /\ cmd = "concat" /\ Acyclic /\ ModulesOnly
    /\ Len(all_nodes) = 2
    /\ \E a, b \in Ids : Edge(a, b)

(***************************************************************************)
(* C8: two evaluate_chain() calls on a built graph, each made with every   *)
(* visited flag cleared, return the same sequence.                         *)
(***************************************************************************)
C8_ReEvaluationSame ==
    \A j, k \in 1..Len(chains) :
        (chains[j].fresh /\ chains[k].fresh) => chains[j].chain = chains[k].chain

\* the chain was evaluated, the flags were cleared, and it was evaluated
\* again, on a graph of three nodes or more with edges
C8_Witness ==
    /\ Len(chains) >= 2
    /\ chains[1].fresh /\ chains[2].fresh
    /\ Len(chains[1].chain) >= 3
    /\ \E a, b \in Ids : Edge(a, b)

(***************************************************************************)
(* C9: when the inputs are two files that declare two different modules    *)
(* without dependencies, leaves holds both module nodes, and the chain is  *)
(* fixed by the order of the inputs alone: it holds the second input's     *)
(* module, then the first's, whatever the sources are.                     *)
(***************************************************************************)
TwoIndependent ==
    /\ Len(inputs) = 2
    /\ \A i \in 1..2 :
          /\ inputs[i] \in DOMAIN disk
          /\ disk[inputs[i]].isfile
          /\ disk[inputs[i]].kind = "module"
          /\ disk[inputs[i]].deps = << >>
    /\ disk[inputs[1]].name # disk[inputs[2]].name

ModulesOf(ids) == [i \in 1..Len(ids) |-> nodes[ids[i]].module]

C9_OrderByInputOrder ==
    (BuildSucceeded /\ TwoIndependent) =>
        /\ ModulesOf(leaves) = <<disk[inputs[1]].name, disk[inputs[2]].name>>
        /\ \A k \in 1..Len(chains) :
              chains[k].fresh =>
                  ModulesOf(chains[k].chain)
                      = <<disk[inputs[2]].name, disk[inputs[1]].name>>

\* the chain of two independent modules was evaluated
C9_Witness ==
    /\ BuildSucceeded /\ TwoIndependent
    /\ Len(chains) > 0

(***************************************************************************)
(* C10: when build() or the output command raises BuildException under the *)
(* command line driver, the message is printed and the process ends with a *)
(* non-zero exit status.                                                   *)
(***************************************************************************)
C10_NonZeroExit ==
    (caller = "main" /\ raised = "BuildException") =>
        /\ pc = "exit"
        /\ \E i \in 1..Len(out) : out[i].line = "Error"
        /\ exit_code > 0


(***************************************************************************)
(* C11: once a module node is loaded, no later pass of the worklist loop   *)
(* parses it again: its file, its content and its dependencies list stay   *)
(* as they are.                                                            *)
(***************************************************************************)
C11_LoadedNotReparsed ==
    [][\A i \in Ids :
          nodes[i].loaded =>
              /\ i <= Len(nodes')
              /\ nodes'[i].loaded
              /\ nodes'[i].file_name = nodes[i].file_name
              /\ nodes'[i].content = nodes[i].content
              /\ nodes'[i].dependencies = nodes[i].dependencies]_vars

(***************************************************************************)
(* C12: the worklist is a queue: it starts with the input nodes in input   *)
(* order, a pass takes the next item and only appends behind the items     *)
(* already there, and the leaf pass, the output command and any chain come *)
(* after every item has been taken.                                        *)
(***************************************************************************)
C12_FifoOrder ==
    /\ [](/\ qi <= Len(queue)
          /\ pc # "start" =>
                /\ Len(queue) >= Len(inputs)
                /\ \A i \in 1..Len(inputs) :
                      /\ queue[i] = i
                      /\ nodes[i].module = None
                      /\ nodes[i].file_name = inputs[i]
          /\ (pc = "built" \/ leaves # << >> \/ chains # << >> \/ cmd \in Commands)
                => qi = Len(queue))
    /\ [][pc = "build" =>
             /\ Len(queue') >= Len(queue)
             /\ SubSeq(queue', 1, Len(queue)) = queue
             /\ qi' \in {qi, qi + 1}
             /\ (qi' = qi /\ pc' = "build") => queue' = queue]_vars

\* two dependency nodes were appended in different passes, and all were taken
C12_Witness ==
    /\ pc = "built"
    /\ Len(queue) >= Len(inputs) + 2
    /\ \E a, b \in Ids :
          /\ a # b
          /\ nodes[a].dependencies # << >>
          /\ nodes[b].dependencies # << >>

(***************************************************************************)
(* C13: a node is appended to the worklist only in the pass that registers *)
(* its name: what a pass appends is a node it has just created under a     *)
(* name the cache did not hold, and no node is in the worklist twice.      *)
(***************************************************************************)
C13_AppendedOnce ==
    /\ [](\A i, j \in 1..Len(queue) :
             i # j =>
                 /\ queue[i] # queue[j]
                 /\ nodes[queue[i]].module = nodes[queue[j]].module
                       => nodes[queue[i]].module = None)
    /\ [][pc = "build" =>
             \A k \in (Len(queue) + 1)..Len(queue') :
                 /\ queue'[k] > Len(nodes)
                 /\ nodes'[queue'[k]].module \notin DOMAIN cache
                 /\ nodes'[queue'[k]].module \in DOMAIN cache']_vars

\* a queued name was named as a dependency again, and a name registered by
\* its declaration was named as a dependency without being queued
C13_Witness ==
    /\ \E a \in Ids, i \in 1..Len(queue) :
          Count(nodes[a].dependencies, queue[i]) >= 2
    /\ \E n \in DOMAIN cache :
          /\ cache[n] \notin Range(queue)
          /\ nodes[cache[n]].dependents # << >>

(***************************************************************************)
(* C14: no node occurs twice in a sequence evaluate_chain() returns, on    *)
(* graphs with cycles and repeated edges too.                              *)
(***************************************************************************)
C14_VisitedOnce ==
    \A k \in 1..Len(chains) :
        \A i \in Ids : Count(chains[k].chain, i) <= 1

\* a chain holds a node that is on a dependency cycle and a node that has a
\* repeated edge
C14_Witness ==
    /\ Len(chains) > 0
    /\ \E a \in Range(chains[1].chain) : a \in Reached({a}, {})
    /\ \E a \in Range(chains[1].chain), b \in Ids :
          Count(nodes[a].dependents, b) >= 2

(***************************************************************************)
(* C16: an evaluate_chain() call made while the visited flags of an        *)
(* earlier call are still set raises nothing and returns a sequence        *)
(* strictly shorter than the earlier call's non-empty sequence.            *)
(***************************************************************************)
C16_StaleShorter ==
    \A k \in 1..(Len(chains) - 1) :
        (chains[k].chain # << >> /\ ~chains[k + 1].fresh) =>
            /\ Len(chains[k + 1].chain) < Len(chains[k].chain)
            /\ raised = NoError
            /\ pc = "built"

\* two calls with no reset in between, the first on fresh flags and non-empty
C16_Witness ==
    /\ Len(chains) >= 2
    /\ chains[1].fresh
    /\ chains[1].chain # << >>
    /\ ~chains[2].fresh

\* the sources whose base name is <last segment of the module name>.js
Matching(mod_name) ==
    {i \in 1..Len(sources) :
        \E k \in 0..Len(sources[i]) :
            /\ k = 0 \/ sources[i][k] = "/"
            /\ \A j \in (k + 1)..Len(sources[i]) : sources[i][j] # "/"
            /\ \E d \in 0..Len(mod_name) :
                  /\ d = 0 \/ mod_name[d] = "."
                  /\ \A j \in (d + 1)..Len(mod_name) : mod_name[j] # "."
                  /\ SubSeq(sources[i], k + 1, Len(sources[i]))
                        = SubSeq(mod_name, d + 1, Len(mod_name)) \o <<".", "j", "s">>}

\* the worklist item in hand has no file of its own and is not skipped
Guessing == InLoop /\ ~Skipped /\ nodes[Cur].file_name = None

(***************************************************************************)
(* C17: for a worklist node without a file, guess_file yields the first    *)
(* source, in list order, whose base name is the last dot-separated        *)
(* segment of the module name followed by .js, and that file is the one    *)
(* the pass reads; when no source matches it yields None and the pass      *)
(* raises BuildException.                                                  *)
(***************************************************************************)
C17_GuessFirstMatch ==
    /\ [](Guessing =>
            LET hits == Matching(nodes[Cur].module)
                g == guess_file(nodes[Cur], sources)
            IN  /\ hits = {} <=> g = None
                /\ hits # {} =>
                      \E i \in hits : /\ g = sources[i]
                                      /\ \A j \in hits : i <= j)
    /\ [][Guessing =>
            LET hits == Matching(nodes[Cur].module)
            IN  /\ hits = {} => (pc' = "exit" /\ raised' = "BuildException")
                /\ hits # {} =>
                      \E i \in hits : /\ sources[i] \in DOMAIN disk'
                                      /\ \A j \in hits : i <= j]_vars

\* a placeholder was resolved to the first of two sources with the wanted
\* base name, behind a source that does not match
C17_Witness ==
    /\ pc = "built"
    /\ sources = <<fRaw, fDA, fA>>
    /\ fDA \in DOMAIN disk
    /\ \E i \in Ids : nodes[i].file_name = fDA /\ nodes[i].loaded

(***************************************************************************)
(* C18: after a successful build every node of a sequence returned by      *)
(* evaluate_chain() is a member of all_nodes; the nameless node that wraps *)
(* an input file is in no chain.  Stated for input files whose paths are   *)
(* not themselves written as a module name.                                *)
(***************************************************************************)
C18_ChainRegistered ==
    (BuildSucceeded /\ \A n \in 1..Len(inputs) : inputs[n] \notin DepNames) =>
        \A k \in 1..Len(chains) :
            \A i \in Range(chains[k].chain) :
                /\ i \in Range(all_nodes)
                /\ nodes[i].module # None

(***************************************************************************)
(* C19: after a successful build every node of all_nodes has a file_name   *)
(* other than None.                                                        *)
(***************************************************************************)
C19_FileNameKnown ==
    BuildSucceeded =>
        \A i \in Range(all_nodes) : nodes[i].file_name # None

(***************************************************************************)
(* C15: a started evaluate_chain() call returns its chain, on graphs with  *)
(* dependency cycles too: it raises nothing, its stack of visit calls      *)
(* holds no node twice, and it ends by handing back the chain it built.    *)
(***************************************************************************)
C15_EvaluateTerminates ==
    /\ (pc = "eval") ~> (pc = "built")
    /\ [](raised # "RuntimeError")
    /\ [](pc = "eval" =>
            \A i, j \in 1..Len(eval.stack) :
                i # j => eval.stack[i].node # eval.stack[j].node)
    /\ [][(pc = "eval" /\ pc' # "eval") =>
             /\ pc' = "built"
             /\ chains' = Append(chains, [chain |-> eval.chain,
                                          fresh |-> eval.fresh])]_vars

\* a call has returned a chain holding a node that is on a dependency cycle
C15_Witness ==
    /\ pc = "built"
    /\ eval = NoCall
    /\ chains # << >>
    /\ \E k \in 1..Len(chains) :
          \E a \in Range(chains[k].chain) :
              /\ a \in Reached({a}, {})
              /\ Len(chains[k].chain) >= 2

\* the dependency names written in the files read so far
RECURSIVE DepNamesRead(_)
DepNamesRead(ps) ==
    IF ps = {} THEN {}
    ELSE LET p == CHOOSE q \in ps : TRUE
         IN  Range(disk[p].deps) \cup DepNamesRead(ps \ {p})

(***************************************************************************)
(* C20: build() terminates: the worklist never holds more items than the   *)
(* inputs and the distinct dependency names read, and a started build      *)
(* reaches the leaf pass or raises BuildException, with modules that       *)
(* depend on each other or on themselves too.                              *)
(***************************************************************************)
C20_BuildTerminates ==
    /\ [](Len(queue) <= Len(inputs) + Cardinality(DepNamesRead(DOMAIN disk)))
    /\ (pc = "build") ~> (pc = "built" \/ (pc = "exit" /\ raised = "BuildException"))

\* a build reached the leaf pass with a module that depends on itself and
\* two modules that depend on each other, the worklist at its bound
C20_Witness ==
    /\ pc = "built"
    /\ Len(queue) = Len(inputs) + Cardinality(DepNamesRead(DOMAIN disk))
    /\ \E a, b \in Ids : a # b /\ Edge(a, b) /\ Edge(b, a) /\ Edge(a, a)

====
